---- MODULE Spec2Model ----
(***************************************************************************)
(* Model of the snippet manager: the Dashboard page (snippet list and its  *)
(* text / language / tag filter) and the SnippetForm dialog (tag input,    *)
(* tag creation against the hosted database).                              *)
(*                                                                         *)
(* Text is a sequence of one-character strings.  A React handler runs to   *)
(* completion on the single UI task; an awaited request is a record in     *)
(* `requests` carrying the values the handler's closure captured when it   *)
(* was invoked, and its continuation is a separate action.                 *)
(***************************************************************************)
EXTENDS Integers, Sequences, FiniteSets, Bags, TLC

\* ------------------------------------------------------------------ bounds
\* Longest snippet list held by the Dashboard.
MaxSnippets == 2
\* Longest text typed in the search box.
MaxQueryLen == 2
\* Longest text typed in the form's tag input.
MaxNameLen == 2
\* Most tag inserts issued from the form.
MaxInserts == 1
\* Most times the form is opened.
MaxOpens == 1
\* Most deletions started from the cards.
MaxDeletes == 1
\* Most saves started from the form.
MaxSubmits == 1

\* ------------------------------------------------------------------- text
Space == " "
\* The characters typed in the search box, and those typed in the tag input.
Letters == {"a", "A", "b"}
NameChars == {"A", Space}

\* All texts over alphabet `alpha` of length at most n.
RECURSIVE TextsUpTo(_, _)
TextsUpTo(alpha, n) ==
    IF n = 0 THEN {<<>>}
    ELSE LET shorter == TextsUpTo(alpha, n - 1)
         IN  shorter \cup {Append(t, c) : t \in shorter, c \in alpha}

\* String.prototype.toLowerCase on one character.
LowerChar(c) ==
    CASE c = "A" -> "a"
      [] c = "B" -> "b"
      [] OTHER -> c

toLowerCase(s) == [i \in 1..Len(s) |-> LowerChar(s[i])]

\* String.prototype.includes: q occurs in s as a contiguous run.
includes(s, q) ==
    \E i \in 0..(Len(s) - Len(q)) : SubSeq(s, i + 1, i + Len(q)) = q

\* String.prototype.trim: strips leading and trailing white space.
RECURSIVE trimStart(_)
trimStart(s) ==
    IF s # <<>> /\ Head(s) = Space THEN trimStart(Tail(s)) ELSE s

RECURSIVE trimEnd(_)
trimEnd(s) ==
    IF s # <<>> /\ s[Len(s)] = Space THEN trimEnd(SubSeq(s, 1, Len(s) - 1)) ELSE s

trim(s) == trimEnd(trimStart(s))

\* Number.prototype.toString for a non-negative integer.
DigitChar(d) == <<"0", "1", "2", "3", "4", "5", "6", "7", "8", "9">>[d + 1]

RECURSIVE toString(_)
toString(n) ==
    IF n < 10 THEN <<DigitChar(n)>>
    ELSE Append(toString(n \div 10), DigitChar(n % 10))

IsDigit(c) == c \in {"0", "1", "2", "3", "4", "5", "6", "7", "8", "9"}

DigitValue(c) == CHOOSE d \in 0..9 : DigitChar(d) = c

\* parseInt: the value of the longest prefix of digits; <<>> stands for NaN,
\* which `===` finds equal to nothing, <<n>> for the number n.
RECURSIVE ParseDigits(_, _)
ParseDigits(s, acc) ==
    IF s # <<>> /\ IsDigit(Head(s))
    THEN ParseDigits(Tail(s), acc * 10 + DigitValue(Head(s)))
    ELSE acc

parseInt(s) ==
    IF s # <<>> /\ IsDigit(Head(s)) THEN <<ParseDigits(s, 0)>> ELSE <<>>

\* ------------------------------------------------------------ sequences
Range(s) == {s[i] : i \in 1..Len(s)}

IsInjective(s) == \A i, j \in 1..Len(s) : s[i] = s[j] => i = j

\* Sequences over S of length at most n.
RECURSIVE SeqsUpTo(_, _)
SeqsUpTo(S, n) ==
    IF n = 0 THEN {<<>>}
    ELSE LET shorter == SeqsUpTo(S, n - 1)
         IN  shorter \cup {Append(t, x) : t \in shorter, x \in S}

\* Those without repetition.
InjectiveSeqs(S, n) == {t \in SeqsUpTo(S, n) : IsInjective(t)}

\* --------------------------------------------------------------- records
Language(id, nome) == [id_linguagem |-> id, nome |-> nome]

Tag(id, nome) == [id_tag |-> id, nome |-> nome]

\* An optional text (descricao?: string): absent, or present with a value.
Absent == [present |-> FALSE, value |-> <<>>]

Present(text) == [present |-> TRUE, value |-> text]

Snippet(id, titulo, descricao, codigo, id_linguagem, tags) ==
    [id_snippet |-> id, titulo |-> titulo, descricao |-> descricao,
     codigo |-> codigo, id_linguagem |-> id_linguagem,
     snippet_tags |-> [i \in 1..Len(tags) |-> [tags |-> tags[i]]]]

\* The form's data: useState({ titulo: '', descricao: '', codigo: '',
\* id_linguagem: 0 }).
FormData(titulo, descricao, codigo, id_linguagem) ==
    [titulo |-> titulo, descricao |-> descricao, codigo |-> codigo,
     id_linguagem |-> id_linguagem]

EmptyForm == FormData(<<>>, <<>>, <<>>, 0)

\* A row of table `snippets` (criado_em is the order of insertion) and a row
\* of table `snippet_tags`.
SnippetRow(id, id_usuario, titulo, descricao, codigo, id_linguagem) ==
    [id_snippet |-> id, id_usuario |-> id_usuario, titulo |-> titulo,
     descricao |-> descricao, codigo |-> codigo, id_linguagem |-> id_linguagem]

SnippetTag(id_snippet, id_tag) == [id_snippet |-> id_snippet, id_tag |-> id_tag]

\* useAuth()'s user: its id is the text of usuarios.id_usuario.
user == [id |-> <<"7">>]

\* The rows the Dashboard's three loads can return.
LanguageRows == <<Language(9, <<"A">>), Language(10, <<"b">>)>>

TagRows == <<Tag(1, <<"a">>), Tag(2, <<"b">>)>>

SnippetRows ==
    { Snippet(1, <<"A", "b">>, Absent, <<"b">>, 9, <<>>),
      Snippet(2, <<"b">>, Absent, <<"b", "A">>, 10, <<TagRows[1]>>),
      Snippet(3, <<"b">>, Present(<<"a", "a">>), <<"b">>, 9, <<TagRows[1], TagRows[2]>>),
      Snippet(4, <<"b", "b">>, Present(<<>>), <<"b">>, 10, <<TagRows[2]>>),
      Snippet(5, <<"b">>, Absent, <<"b">>, 10, <<TagRows[2], TagRows[1]>>),
      Snippet(6, <<"a", "A">>, Present(<<"A", "b">>), <<"B", "a">>, 9, <<>>) }

\* The sentinel value of the language select.
All == <<"a", "l", "l">>

\* ------------------------------------------------------------------ state
VARIABLES
    \* Dashboard
    snippets,           \* useState<Snippet[]>([])
    filteredSnippets,   \* useState<Snippet[]>([])
    languages,          \* useState<Language[]>([])
    allTags,            \* useState<Tag[]>([])
    searchTerm,         \* useState('')
    selectedLanguage,   \* useState<string>('all')
    selectedTags,       \* useState<Tag[]>([])
    showForm,           \* useState(false): the SnippetForm's `open` prop
    filterEffect,       \* the [snippets, searchTerm, ...] effect is scheduled
    \* SnippetForm
    formAllTags,        \* useState<Tag[]>([])
    formSelectedTags,   \* useState<Tag[]>([])
    formLanguages,      \* useState<Language[]>([])
    newTag,             \* useState('')
    \* hosted database and the requests in flight
    dbTags,             \* the rows of table `tags`, in insertion order
    requests,           \* bag of awaited requests, each with its handler's closure
    inserts,            \* tag inserts issued so far
    opens,              \* times the form was opened so far
    lastOp,             \* the last step, if a handler ended in it: the handler,
                        \* its outcome and the toast it raised
    \* Dashboard, continued
    loading,            \* useState(true)
    userEffect,         \* the [user] effect of the first render is scheduled
    editingSnippet,     \* useState<Snippet | null>(null): <<>> or <<snippet>>
    \* SnippetForm, continued
    formData,           \* useState({ titulo, descricao, codigo, id_linguagem })
    formLoading,        \* useState(false)
    \* hosted database, continued
    dbSnippets,         \* the rows of table `snippets`, in insertion order
    dbSnippetTags,      \* the rows of table `snippet_tags`, in insertion order
    dbSnippetSeq,       \* the last value of the serial of snippets.id_snippet
    submits,            \* saves started so far
    deletes,            \* deletions started so far
    \* the calls of loadSnippets, numbered in the order they were made
    loads,              \* calls made so far
    newestLoaded        \* the latest of the calls that have returned with a
                        \* result, and that result

dashVars == <<snippets, filteredSnippets, languages, allTags, searchTerm,
              selectedLanguage, selectedTags, filterEffect>>

formVars == <<formAllTags, formSelectedTags, formLanguages, newTag>>

netVars == <<dbTags, requests, inserts, opens>>

pageVars == <<loading, userEffect, editingSnippet>>

editVars == <<formData, formLoading>>

storeVars == <<dbSnippets, dbSnippetTags, dbSnippetSeq, submits, deletes>>

loadVars == <<loads, newestLoaded>>

crudVars == <<pageVars, editVars, storeVars, loadVars>>

vars == <<dashVars, showForm, formVars, netVars, lastOp, crudVars>>

NoToast == "none"

Op(op, outcome, toast) == [op |-> op, outcome |-> outcome, toast |-> toast]

NoOp == Op("none", "none", NoToast)

\* -------------------------------------------------------- Dashboard filter
\* textMatches with the search term compared as typed (its toLowerCase() left
\* out).
textMatchesTermAsTyped(snippet, term) ==
    \/ includes(toLowerCase(snippet.titulo), term)
    \/ /\ snippet.descricao.present
       /\ includes(toLowerCase(snippet.descricao.value), term)
    \/ includes(toLowerCase(snippet.codigo), term)

\* The predicate of the text filter, for a non-empty search term.  `a || b`
\* of an absent description's `undefined` is `b`.
textMatches(snippet, term) ==
    \/ includes(toLowerCase(snippet.titulo), toLowerCase(term))
    \/ /\ snippet.descricao.present
       /\ includes(toLowerCase(snippet.descricao.value), toLowerCase(term))
    \/ includes(toLowerCase(snippet.codigo), toLowerCase(term))

textFilter(list, term) ==
    IF term # <<>>
    THEN SelectSeq(list, LAMBDA snippet : textMatches(snippet, term))
    ELSE list

\* languageMatches without parseInt: `===` of a number and a string is false.
languageMatchesUnparsed(snippet, language) == FALSE

languageMatches(snippet, language) ==
    <<snippet.id_linguagem>> = parseInt(language)

\* languageFilter without the test for the sentinel 'all'.
languageFilterNoSentinel(list, language) ==
    IF language # <<>>
    THEN SelectSeq(list, LAMBDA snippet : languageMatches(snippet, language))
    ELSE list

languageFilter(list, language) ==
    IF language # <<>> /\ language # All
    THEN SelectSeq(list, LAMBDA snippet : languageMatches(snippet, language))
    ELSE list

\* tagsMatch with some() in place of every(): one selected tag is enough.
tagsMatchSome(snippet, tags) ==
    \E i \in 1..Len(tags) :
        \E j \in 1..Len(snippet.snippet_tags) :
            snippet.snippet_tags[j].tags.id_tag = tags[i].id_tag

tagsMatch(snippet, tags) ==
    \A i \in 1..Len(tags) :
        \E j \in 1..Len(snippet.snippet_tags) :
            snippet.snippet_tags[j].tags.id_tag = tags[i].id_tag

tagFilter(list, tags) ==
    IF Len(tags) > 0
    THEN SelectSeq(list, LAMBDA snippet : tagsMatch(snippet, tags))
    ELSE list

\* filtered with the tag step run on the full list instead of the narrowed one.
filteredTagsOfFullList(list, term, language, tags) ==
    IF Len(tags) > 0
    THEN tagFilter(list, tags)
    ELSE languageFilter(textFilter(list, term), language)

\* filtered with its result turned around.
filteredReversed(list, term, language, tags) ==
    LET r == tagFilter(languageFilter(textFilter(list, term), language), tags)
    IN  [i \in 1..Len(r) |-> r[Len(r) + 1 - i]]

\* The list applyFilters hands to setFilteredSnippets.
filtered(list, term, language, tags) ==
    tagFilter(languageFilter(textFilter(list, term), language), tags)

\* useEffect(() => applyFilters(), [snippets, searchTerm, selectedLanguage,
\* selectedTags]).  React runs a scheduled effect before it handles the next
\* event, so every handler of an input waits for it.  While `loading` the
\* page renders the spinner alone, and while the form's dialog is open the
\* page behind it takes no input.
applyFilters ==
    /\ filterEffect
    /\ filteredSnippets' = filtered(snippets, searchTerm, selectedLanguage, selectedTags)
    /\ filterEffect' = FALSE
    /\ lastOp' = NoOp
    /\ UNCHANGED <<snippets, languages, allTags, searchTerm, selectedLanguage,
                   selectedTags, showForm, formVars, netVars>>
    /\ UNCHANGED crudVars

\* setSearchTerm with searchTerm missing from the effect's dependencies.
setSearchTermUnwatched(text) ==
    /\ ~filterEffect
    /\ ~loading /\ ~showForm
    /\ searchTerm' = text
    /\ filterEffect' = FALSE
    /\ lastOp' = NoOp
    /\ UNCHANGED <<snippets, filteredSnippets, languages, allTags,
                   selectedLanguage, selectedTags, showForm, formVars, netVars>>
    /\ UNCHANGED crudVars

\* <Input onChange={(e) => setSearchTerm(e.target.value)}>.  Setting a state
\* to an identical value schedules nothing.
setSearchTerm(text) ==
    /\ ~filterEffect
    /\ ~loading /\ ~showForm
    /\ searchTerm' = text
    /\ filterEffect' = (text # searchTerm)
    /\ lastOp' = NoOp
    /\ UNCHANGED <<snippets, filteredSnippets, languages, allTags,
                   selectedLanguage, selectedTags, showForm, formVars, netVars>>
    /\ UNCHANGED crudVars

\* The values the language select offers: 'all' and each language's id as text.
LanguageOptions ==
    {All} \cup {toString(languages[i].id_linguagem) : i \in 1..Len(languages)}

setSelectedLanguage(value) ==
    /\ ~filterEffect
    /\ ~loading /\ ~showForm
    /\ selectedLanguage' = value
    /\ filterEffect' = (value # selectedLanguage)
    /\ lastOp' = NoOp
    /\ UNCHANGED <<snippets, filteredSnippets, languages, allTags, searchTerm,
                   selectedTags, showForm, formVars, netVars>>
    /\ UNCHANGED crudVars

TagChipLimit == 10

\* The tags offered as filter chips: those not selected, the first ten.
OfferedTags ==
    LET rest == SelectSeq(allTags,
                    LAMBDA tag : ~\E i \in 1..Len(selectedTags) :
                                      selectedTags[i].id_tag = tag.id_tag)
    IN  SubSeq(rest, 1, IF Len(rest) < TagChipLimit THEN Len(rest) ELSE TagChipLimit)

addTagFilter(tag) ==
    /\ ~filterEffect
    /\ ~loading /\ ~showForm
    /\ IF ~\E i \in 1..Len(selectedTags) : selectedTags[i].id_tag = tag.id_tag
       THEN /\ selectedTags' = Append(selectedTags, tag)
            /\ filterEffect' = TRUE
       ELSE UNCHANGED <<selectedTags, filterEffect>>
    /\ lastOp' = NoOp
    /\ UNCHANGED <<snippets, filteredSnippets, languages, allTags, searchTerm,
                   selectedLanguage, showForm, formVars, netVars>>
    /\ UNCHANGED crudVars

\* filter() builds a new array, so the effect is scheduled in every case.
removeTagFilter(tagId) ==
    /\ ~filterEffect
    /\ ~loading /\ ~showForm
    /\ selectedTags' = SelectSeq(selectedTags, LAMBDA tag : tag.id_tag # tagId)
    /\ filterEffect' = TRUE
    /\ lastOp' = NoOp
    /\ UNCHANGED <<snippets, filteredSnippets, languages, allTags, searchTerm,
                   selectedLanguage, showForm, formVars, netVars>>
    /\ UNCHANGED crudVars

\* The "Limpar" button is rendered only while some filter is active.
clearFilters ==
    /\ ~filterEffect
    /\ ~loading /\ ~showForm
    /\ searchTerm # <<>> \/ selectedLanguage # All \/ Len(selectedTags) > 0
    /\ searchTerm' = <<>>
    /\ selectedLanguage' = All
    /\ selectedTags' = <<>>
    /\ filterEffect' = TRUE
    /\ lastOp' = NoOp
    /\ UNCHANGED <<snippets, filteredSnippets, languages, allTags, showForm,
                   formVars, netVars>>
    /\ UNCHANGED crudVars

\* ------------------------------------------------------------ idle parts
\* The form as mounted: closed, nothing loaded, nothing typed.
FormIdle ==
    /\ showForm = FALSE
    /\ formAllTags = <<>>
    /\ formSelectedTags = <<>>
    /\ formLanguages = <<>>
    /\ newTag = <<>>
    /\ formData = EmptyForm
    /\ formLoading = FALSE

NetIdle ==
    /\ dbTags = TagRows
    /\ requests = EmptyBag
    /\ inserts = 0
    /\ opens = 0
    /\ submits = 0
    /\ deletes = 0

\* The page after loadInitialData has finished, no snippet being edited.
PageReady ==
    /\ loading = FALSE
    /\ userEffect = FALSE
    /\ editingSnippet = <<>>
    /\ loads = 1

Loaded(id, data) == [id |-> id, data |-> data]

\* The one call of loadSnippets made so far has stored its result.
SnippetsLoaded == newestLoaded = Loaded(1, snippets)

\* It has failed.
SnippetsFailed == newestLoaded = Loaded(0, <<>>)

\* The row of table `snippets` a loaded snippet of the user was read from,
\* and the rows of `snippet_tags` the snippets of a list were read from.
RowOf(snippet) ==
    SnippetRow(snippet.id_snippet, parseInt(user.id)[1], snippet.titulo,
               snippet.descricao, snippet.codigo, snippet.id_linguagem)

RECURSIVE PairsOf(_)
PairsOf(list) ==
    IF list = <<>> THEN <<>>
    ELSE [j \in 1..Len(Head(list).snippet_tags) |->
              SnippetTag(Head(list).id_snippet, Head(list).snippet_tags[j].tags.id_tag)]
         \o PairsOf(Tail(list))

\* The tables hold exactly what `list` was loaded from: order('criado_em',
\* { ascending: false }) lists the newest row first.
StoredAs(list) ==
    /\ dbSnippets = [i \in 1..Len(list) |-> RowOf(list[Len(list) + 1 - i])]
    /\ dbSnippetTags = PairsOf(list)
    /\ dbSnippetSeq = Cardinality(SnippetRows)

\* ------------------------------------------- the filter over loaded data
\* The Dashboard once its loads have answered: any list of distinct persisted
\* snippets, the criteria as first rendered, the effect of the first render
\* scheduled.
FilterInit ==
    /\ snippets \in InjectiveSeqs(SnippetRows, MaxSnippets)
    /\ filteredSnippets = <<>>
    /\ languages = LanguageRows
    /\ allTags = TagRows
    /\ searchTerm = <<>>
    /\ selectedLanguage = All
    /\ selectedTags = <<>>
    /\ filterEffect = TRUE
    /\ FormIdle
    /\ NetIdle
    /\ PageReady
    /\ StoredAs(snippets)
    /\ SnippetsLoaded
    /\ lastOp = NoOp

FilterNext ==
    \/ applyFilters
    \/ \E text \in TextsUpTo(Letters, MaxQueryLen) : setSearchTerm(text)
    \/ \E value \in LanguageOptions : setSelectedLanguage(value)
    \/ \E tag \in Range(OfferedTags) : addTagFilter(tag)
    \/ \E tag \in Range(selectedTags) : removeTagFilter(tag.id_tag)
    \/ clearFilters

FilterSpec == FilterInit /\ [][FilterNext]_vars

\* ------------------------------------------------------- hosted database
\* ORDER BY nome: a before A before b, a shorter text before its extensions.
\* Rows of equal name come in either order.
CollationRank(c) ==
    CASE c = Space -> 0
      [] c = "a" -> 1
      [] c = "A" -> 2
      [] c = "b" -> 3
      [] c = "B" -> 4
      [] OTHER -> 5

RECURSIVE TextBefore(_, _)
TextBefore(s, t) ==
    IF t = <<>> THEN FALSE
    ELSE IF s = <<>> THEN TRUE
    ELSE IF Head(s) # Head(t) THEN CollationRank(Head(s)) < CollationRank(Head(t))
    ELSE TextBefore(Tail(s), Tail(t))

OrderedByNome(rows) ==
    {[i \in 1..Len(rows) |-> rows[p[i]]] :
        p \in {q \in [1..Len(rows) -> 1..Len(rows)] :
                  /\ \A i, j \in 1..Len(rows) : q[i] = q[j] => i = j
                  /\ \A i, j \in 1..Len(rows) :
                         i < j => ~TextBefore(rows[q[j]].nome, rows[q[i]].nome)}}

\* id_tag is a serial column.
NextTagId == Len(dbTags) + 1

\* A request in flight: the handler awaiting it (`by`), the operation asked
\* of the service, and what the handler's closure holds for the code after
\* the await: the id the request is about, the `snippet` prop, the form
\* data, the tag name, and the allTags and selectedTags of the render the
\* handler was called in.
Call(by, op, id, closureSnippet, form, nome, closureAllTags, closureSelectedTags) ==
    [by |-> by, op |-> op, stage |-> "sent", id |-> id,
     snippet |-> closureSnippet, form |-> form, nome |-> nome,
     allTags |-> closureAllTags, selectedTags |-> closureSelectedTags,
     ok |-> FALSE, data |-> <<>>]

\* A request of the form's loads and of addTag.  For addTag's insert,
\* `allTags` and `selectedTags` are the values of the render addTag was
\* called in, which its continuation still reads after the await; the loads
\* read no state after theirs.
Request(op, nome, closureAllTags, closureSelectedTags) ==
    Call("SnippetForm", op, 0, <<>>, EmptyForm, nome, closureAllTags, closureSelectedTags)

\* The bag of requests with r replaced by q, and with r taken out.
Replaced(r, q) == (requests (-) SetToBag({r})) (+) SetToBag({q})

Without(r) == requests (-) SetToBag({r})

InFlight == BagToSet(requests)

Answered(r, ok, data) == [r EXCEPT !.stage = "answered", !.ok = ok, !.data = data]

\* The service runs from('tags').insert([{ nome }]).select().single(), or
\* rejects it.
dbInsertTag(r) ==
    /\ r \in InFlight /\ r.op = "insertTag" /\ r.stage = "sent"
    /\ \/ /\ dbTags' = Append(dbTags, Tag(NextTagId, r.nome))
          /\ requests' = Replaced(r, Answered(r, TRUE, <<Tag(NextTagId, r.nome)>>))
       \/ /\ dbTags' = dbTags
          /\ requests' = Replaced(r, Answered(r, FALSE, <<>>))
    /\ lastOp' = NoOp
    /\ UNCHANGED <<dashVars, showForm, formVars, inserts, opens>>
    /\ UNCHANGED crudVars

\* The service runs from('tags').select('*').order('nome'), or rejects it.
dbSelectTags(r) ==
    /\ r \in InFlight /\ r.op = "selectTags" /\ r.stage = "sent"
    /\ \/ \E rows \in OrderedByNome(dbTags) :
              requests' = Replaced(r, Answered(r, TRUE, rows))
       \/ requests' = Replaced(r, Answered(r, FALSE, <<>>))
    /\ lastOp' = NoOp
    /\ UNCHANGED <<dashVars, showForm, formVars, dbTags, inserts, opens>>
    /\ UNCHANGED crudVars

\* The service runs from('linguagens').select('*').order('nome'), or rejects it.
dbSelectLanguages(r) ==
    /\ r \in InFlight /\ r.op = "selectLanguages" /\ r.stage = "sent"
    /\ \/ \E rows \in OrderedByNome(LanguageRows) :
              requests' = Replaced(r, Answered(r, TRUE, rows))
       \/ requests' = Replaced(r, Answered(r, FALSE, <<>>))
    /\ lastOp' = NoOp
    /\ UNCHANGED <<dashVars, showForm, formVars, dbTags, inserts, opens>>
    /\ UNCHANGED crudVars

\* ------------------------------------------------------------ SnippetForm
\* "Novo Snippet": setShowForm(true); the form's [open] effect then calls
\* loadLanguages() and loadTags(), each up to its await.
openForm ==
    /\ ~filterEffect
    /\ ~loading /\ ~showForm
    /\ opens < MaxOpens
    /\ showForm' = TRUE
    /\ opens' = opens + 1
    /\ requests' = requests (+) SetToBag({Request("selectLanguages", <<>>, <<>>, <<>>),
                                           Request("selectTags", <<>>, <<>>, <<>>)})
    /\ lastOp' = NoOp
    /\ UNCHANGED <<dashVars, formVars, dbTags, inserts>>
    /\ UNCHANGED crudVars

\* The form's [snippet] effect, run when the prop changes from `old` to
\* `new`: it fills the form from the snippet, or empties it.
snippetEffect(old, new) ==
    IF new = old
    THEN UNCHANGED <<formData, formSelectedTags>>
    ELSE IF new # <<>>
         THEN /\ formData' = FormData(new[1].titulo,
                                      IF new[1].descricao.present
                                      THEN new[1].descricao.value ELSE <<>>,
                                      new[1].codigo, new[1].id_linguagem)
              /\ formSelectedTags' = [i \in 1..Len(new[1].snippet_tags) |->
                                          new[1].snippet_tags[i].tags]
         ELSE /\ formData' = EmptyForm
              /\ formSelectedTags' = <<>>

\* setShowForm(false); setEditingSnippet(null), and the [snippet] effect that
\* follows.  The form stays mounted and keeps the rest of its state.
closeForm ==
    /\ showForm' = FALSE
    /\ editingSnippet' = <<>>
    /\ snippetEffect(editingSnippet, <<>>)

\* onOpenChange(false) of the dialog: handleFormClose.
handleFormClose ==
    /\ ~filterEffect
    /\ ~loading /\ showForm
    /\ closeForm
    /\ lastOp' = NoOp
    /\ UNCHANGED <<dashVars, formAllTags, formLanguages, newTag, netVars>>
    /\ UNCHANGED <<loading, userEffect, formLoading, storeVars, loadVars>>

\* loadLanguages after its await.
loadLanguagesResume(r) ==
    /\ r \in InFlight /\ r.by = "SnippetForm"
    /\ r.op = "selectLanguages" /\ r.stage = "answered"
    /\ requests' = Without(r)
    /\ IF r.ok
       THEN /\ formLanguages' = r.data
            /\ lastOp' = Op("loadLanguages", "loaded", NoToast)
       ELSE /\ formLanguages' = formLanguages
            /\ lastOp' = Op("loadLanguages", "error", "Erro ao carregar linguagens")
    /\ UNCHANGED <<dashVars, showForm, formAllTags, formSelectedTags, newTag,
                   dbTags, inserts, opens>>
    /\ UNCHANGED crudVars

\* loadTags after its await.
loadTagsResume(r) ==
    /\ r \in InFlight /\ r.by = "SnippetForm"
    /\ r.op = "selectTags" /\ r.stage = "answered"
    /\ requests' = Without(r)
    /\ IF r.ok
       THEN /\ formAllTags' = r.data
            /\ lastOp' = Op("loadTags", "loaded", NoToast)
       ELSE /\ formAllTags' = formAllTags
            /\ lastOp' = Op("loadTags", "error", "Erro ao carregar tags")
    /\ UNCHANGED <<dashVars, showForm, formSelectedTags, formLanguages, newTag,
                   dbTags, inserts, opens>>
    /\ UNCHANGED crudVars

\* <Input onChange={(e) => setNewTag(e.target.value)}>
setNewTag(text) ==
    /\ ~filterEffect
    /\ ~loading /\ showForm
    /\ newTag' = text
    /\ lastOp' = NoOp
    /\ UNCHANGED <<dashVars, showForm, formAllTags, formSelectedTags, formLanguages,
                   netVars>>
    /\ UNCHANGED crudVars

\* findByName with the names compared as they are, case included.
findByNameExact(tags, name) ==
    LET hits == SelectSeq(tags, LAMBDA tag : tag.nome = name)
    IN  IF hits = <<>> THEN <<>> ELSE <<Head(hits)>>

\* allTags.find(tag => tag.nome.toLowerCase() === newTag.toLowerCase()): the
\* first such tag as a one-element sequence, or <<>> for undefined.
findByName(tags, name) ==
    LET hits == SelectSeq(tags, LAMBDA tag : toLowerCase(tag.nome) = toLowerCase(name))
    IN  IF hits = <<>> THEN <<>> ELSE <<Head(hits)>>

\* The selection is not searched: no tag is taken as selected already.
hasTagUnsearched(tags, id) == FALSE

\* selectedTags.find(tag => tag.id_tag === id) is not undefined.
hasTag(tags, id) == \E i \in 1..Len(tags) : tags[i].id_tag = id

\* addTag up to its first await, or to its return.
addTag ==
    /\ ~filterEffect
    /\ ~loading /\ showForm
    /\ IF trim(newTag) = <<>>
       THEN /\ lastOp' = Op("addTag", "empty", NoToast)
            /\ UNCHANGED <<formVars, netVars>>
       ELSE LET existingTag == findByName(formAllTags, newTag)
            IN  IF existingTag # <<>>
                THEN /\ IF ~hasTag(formSelectedTags, existingTag[1].id_tag)
                        THEN /\ formSelectedTags' = Append(formSelectedTags, existingTag[1])
                             /\ lastOp' = Op("addTag", "selected", NoToast)
                        ELSE /\ formSelectedTags' = formSelectedTags
                             /\ lastOp' = Op("addTag", "kept", NoToast)
                     /\ newTag' = <<>>
                     /\ UNCHANGED <<formAllTags, formLanguages, netVars>>
                ELSE /\ inserts < MaxInserts
                     /\ requests' = requests (+) SetToBag({Request("insertTag", trim(newTag),
                                                                formAllTags, formSelectedTags)})
                     /\ inserts' = inserts + 1
                     /\ lastOp' = Op("addTag", "insert", NoToast)
                     /\ UNCHANGED <<formVars, dbTags, opens>>
    /\ UNCHANGED <<dashVars, showForm>>
    /\ UNCHANGED crudVars

\* addTag after its await: the closure's allTags and selectedTags are what
\* the new tag is appended to.
addTagResume(r) ==
    /\ r \in InFlight /\ r.op = "insertTag" /\ r.stage = "answered"
    /\ requests' = Without(r)
    /\ IF r.ok
       THEN /\ formAllTags' = r.allTags \o r.data
            /\ formSelectedTags' = r.selectedTags \o r.data
            /\ newTag' = <<>>
            /\ lastOp' = Op("addTag", "created", NoToast)
       ELSE /\ UNCHANGED <<formAllTags, formSelectedTags, newTag>>
            /\ lastOp' = Op("addTag", "error", "Erro ao criar tag")
    /\ UNCHANGED <<dashVars, showForm, formLanguages, dbTags, inserts, opens>>
    /\ UNCHANGED crudVars

\* The X of a selected tag's badge.
removeTag(tagId) ==
    /\ ~filterEffect
    /\ ~loading /\ showForm
    /\ formSelectedTags' = SelectSeq(formSelectedTags, LAMBDA tag : tag.id_tag # tagId)
    /\ lastOp' = NoOp
    /\ UNCHANGED <<dashVars, showForm, formAllTags, formLanguages, newTag, netVars>>
    /\ UNCHANGED crudVars

\* ------------------------------------------------- the form's tag input
\* The Dashboard at rest with nothing loaded, the form closed, and a tags
\* table whose names differ also when case is ignored.
FormInit ==
    /\ snippets = <<>>
    /\ filteredSnippets = <<>>
    /\ languages = <<>>
    /\ allTags = <<>>
    /\ searchTerm = <<>>
    /\ selectedLanguage = All
    /\ selectedTags = <<>>
    /\ filterEffect = FALSE
    /\ FormIdle
    /\ NetIdle
    /\ PageReady
    /\ StoredAs(snippets)
    /\ SnippetsFailed
    /\ lastOp = NoOp

FormNext ==
    \/ openForm
    \/ handleFormClose
    \/ \E text \in TextsUpTo(NameChars, MaxNameLen) : setNewTag(text)
    \/ addTag
    \/ \E tag \in Range(formSelectedTags) : removeTag(tag.id_tag)
    \/ \E r \in InFlight : dbInsertTag(r)
    \/ \E r \in InFlight : dbSelectTags(r)
    \/ \E r \in InFlight : dbSelectLanguages(r)
    \/ \E r \in InFlight : addTagResume(r)
    \/ \E r \in InFlight : loadTagsResume(r)
    \/ \E r \in InFlight : loadLanguagesResume(r)

FormSpec == FormInit /\ [][FormNext]_vars

TagIds(tags) == {tags[i].id_tag : i \in 1..Len(tags)}

\* C19: when addTag's continuation runs with the created tag, the selection
\* and the collection keep every change made while the insert was in flight:
\* after it they hold the tags they held just before it and the new tag, no
\* more and no less.
C19_NoLostChange ==
    [][\A r \in InFlight :
          (addTagResume(r) /\ r.ok) =>
              /\ TagIds(formSelectedTags') =
                     TagIds(formSelectedTags) \cup {r.data[1].id_tag}
              /\ TagIds(formAllTags') =
                     TagIds(formAllTags) \cup {r.data[1].id_tag}]_vars

\* ------------------------------------------------ tables of the snippets
\* The tables as the page finds them: two snippets of the user, the second
\* one tagged, and a tagged snippet of another user.
SnippetById(id) == CHOOSE snippet \in SnippetRows : snippet.id_snippet = id

SnippetTable ==
    <<RowOf(SnippetById(1)), RowOf(SnippetById(2)),
      [RowOf(SnippetById(3)) EXCEPT !.id_usuario = parseInt(user.id)[1] + 1]>>

SnippetTagTable == PairsOf(<<SnippetById(2), SnippetById(3)>>)

TagById(id) == CHOOSE tag \in Range(dbTags) : tag.id_tag = id

\* snippet_tags ( tags (id_tag, nome) ) of one snippet, in table order.
TagsOfSnippet(id) ==
    LET pairs == SelectSeq(dbSnippetTags, LAMBDA pair : pair.id_snippet = id)
    IN  [i \in 1..Len(pairs) |-> TagById(pairs[i].id_tag)]

\* from('snippets').select(...).eq('id_usuario', parseInt(user.id))
\* .order('criado_em', { ascending: false })
SnippetsOfUser ==
    LET rows == SelectSeq(dbSnippets,
                    LAMBDA row : <<row.id_usuario>> = parseInt(user.id))
    IN  [i \in 1..Len(rows) |->
            LET row == rows[Len(rows) + 1 - i]
            IN  Snippet(row.id_snippet, row.titulo, row.descricao, row.codigo,
                        row.id_linguagem, TagsOfSnippet(row.id_snippet))]

\* The service runs the select of loadSnippets, or rejects it.
dbSelectSnippets(r) ==
    /\ r \in InFlight /\ r.op = "selectSnippets" /\ r.stage = "sent"
    /\ \/ requests' = Replaced(r, Answered(r, TRUE, SnippetsOfUser))
       \/ requests' = Replaced(r, Answered(r, FALSE, <<>>))
    /\ lastOp' = NoOp
    /\ UNCHANGED <<dashVars, showForm, formVars, dbTags, inserts, opens>>
    /\ UNCHANGED crudVars

\* -------------------------------------------------- the Dashboard's loads
\* A request of one of the Dashboard's loads, which read no state after
\* their await.  `by` tells the loads Promise.all waits for from the reloads,
\* `id` is the number of the call of loadSnippets.
Load(by, op, id) == Call(by, op, id, <<>>, EmptyForm, <<>>, <<>>, <<>>)

\* The [user] effect: loadInitialData up to its await of Promise.all, the
\* three loads each up to their own await.
loadInitialData ==
    /\ userEffect
    /\ userEffect' = FALSE
    /\ loading' = TRUE
    /\ loads' = loads + 1
    /\ requests' = requests (+) SetToBag({Load("loadInitialData", "selectSnippets", loads + 1),
                                           Load("loadInitialData", "selectLanguages", 0),
                                           Load("loadInitialData", "selectTags", 0)})
    /\ lastOp' = NoOp
    /\ UNCHANGED <<dashVars, showForm, formVars, dbTags, inserts, opens>>
    /\ UNCHANGED <<editingSnippet, editVars, storeVars, newestLoaded>>

\* settled as Promise.race would have it: the first load to settle ends the
\* wait.
settledFirst(r) ==
    IF r.by = "loadInitialData"
    THEN loading' = FALSE
    ELSE loading' = loading

\* A load has settled.  A load catches its own error, so Promise.all never
\* rejects: it resolves with the last of the three, and the finally block
\* runs setLoading(false).
settled(r) ==
    IF r.by = "loadInitialData"
    THEN loading' = \E q \in BagToSet(requests') : q.by = "loadInitialData"
    ELSE loading' = loading

\* loadSnippets after its await.  setSnippets gets a new array, so the
\* filter effect is scheduled.
loadSnippetsResume(r) ==
    /\ r \in InFlight /\ r.by \in {"loadInitialData", "Dashboard"}
    /\ r.op = "selectSnippets" /\ r.stage = "answered"
    /\ requests' = Without(r)
    /\ IF r.ok
       THEN /\ snippets' = r.data
            /\ filterEffect' = TRUE
            /\ newestLoaded' = IF r.id > newestLoaded.id
                               THEN Loaded(r.id, r.data) ELSE newestLoaded
            /\ lastOp' = Op("loadSnippets", "loaded", NoToast)
       ELSE /\ UNCHANGED <<snippets, filterEffect, newestLoaded>>
            /\ lastOp' = Op("loadSnippets", "error", "Erro ao carregar snippets")
    /\ settled(r)
    /\ UNCHANGED <<filteredSnippets, languages, allTags, searchTerm,
                   selectedLanguage, selectedTags, showForm, formVars,
                   dbTags, inserts, opens>>
    /\ UNCHANGED <<userEffect, editingSnippet, editVars, storeVars, loads>>

\* The Dashboard's loadLanguages after its await.
DashboardLoadLanguagesResume(r) ==
    /\ r \in InFlight /\ r.by \in {"loadInitialData", "Dashboard"}
    /\ r.op = "selectLanguages" /\ r.stage = "answered"
    /\ requests' = Without(r)
    /\ IF r.ok
       THEN /\ languages' = r.data
            /\ lastOp' = Op("loadLanguages", "loaded", NoToast)
       ELSE /\ languages' = languages
            /\ lastOp' = Op("loadLanguages", "error", "Erro ao carregar linguagens")
    /\ settled(r)
    /\ UNCHANGED <<snippets, filteredSnippets, allTags, searchTerm,
                   selectedLanguage, selectedTags, filterEffect, showForm,
                   formVars, dbTags, inserts, opens>>
    /\ UNCHANGED <<userEffect, editingSnippet, editVars, storeVars, loadVars>>

\* The Dashboard's loadTags after its await.
DashboardLoadTagsResume(r) ==
    /\ r \in InFlight /\ r.by \in {"loadInitialData", "Dashboard"}
    /\ r.op = "selectTags" /\ r.stage = "answered"
    /\ requests' = Without(r)
    /\ IF r.ok
       THEN /\ allTags' = r.data
            /\ lastOp' = Op("loadTags", "loaded", NoToast)
       ELSE /\ allTags' = allTags
            /\ lastOp' = Op("loadTags", "error", "Erro ao carregar tags")
    /\ settled(r)
    /\ UNCHANGED <<snippets, filteredSnippets, languages, searchTerm,
                   selectedLanguage, selectedTags, filterEffect, showForm,
                   formVars, dbTags, inserts, opens>>
    /\ UNCHANGED <<userEffect, editingSnippet, editVars, storeVars, loadVars>>

\* ------------------------------------------------------ the initial load
\* The page as first rendered for a signed-in user: nothing loaded, both
\* effects of the first render scheduled.
LoadInit ==
    /\ snippets = <<>>
    /\ filteredSnippets = <<>>
    /\ languages = <<>>
    /\ allTags = <<>>
    /\ searchTerm = <<>>
    /\ selectedLanguage = All
    /\ selectedTags = <<>>
    /\ filterEffect = TRUE
    /\ FormIdle
    /\ NetIdle
    /\ loading = TRUE
    /\ userEffect = TRUE
    /\ editingSnippet = <<>>
    /\ dbSnippets = SnippetTable
    /\ dbSnippetTags = SnippetTagTable
    /\ dbSnippetSeq = Len(SnippetTable)
    /\ loads = 0
    /\ SnippetsFailed
    /\ lastOp = NoOp

LoadNext ==
    \/ loadInitialData
    \/ applyFilters
    \/ \E r \in InFlight : dbSelectSnippets(r)
    \/ \E r \in InFlight : dbSelectLanguages(r)
    \/ \E r \in InFlight : dbSelectTags(r)
    \/ \E r \in InFlight : loadSnippetsResume(r)
    \/ \E r \in InFlight : DashboardLoadLanguagesResume(r)
    \/ \E r \in InFlight : DashboardLoadTagsResume(r)
    \/ \E value \in LanguageOptions : setSelectedLanguage(value)
    \/ \E tag \in Range(OfferedTags) : addTagFilter(tag)

\* Every request is answered, with data or with an error, and a continuation
\* whose promise has settled runs; scheduled effects run.
LoadFairness ==
    /\ WF_vars(loadInitialData)
    /\ WF_vars(applyFilters)
    /\ WF_vars(\E r \in InFlight : dbSelectSnippets(r))
    /\ WF_vars(\E r \in InFlight : dbSelectLanguages(r))
    /\ WF_vars(\E r \in InFlight : dbSelectTags(r))
    /\ WF_vars(\E r \in InFlight : loadSnippetsResume(r))
    /\ WF_vars(\E r \in InFlight : DashboardLoadLanguagesResume(r))
    /\ WF_vars(\E r \in InFlight : DashboardLoadTagsResume(r))

LoadSpec == LoadInit /\ [][LoadNext]_vars /\ LoadFairness

\* ------------------------------------------------------ deleting a snippet
\* snippet_tags_id_snippet_fkey: some row of snippet_tags references the
\* snippet.
Referenced(id) ==
    \E i \in 1..Len(dbSnippetTags) : dbSnippetTags[i].id_snippet = id

\* The service runs from('snippet_tags').delete().eq('id_snippet', id), or
\* rejects it.
dbDeleteSnippetTags(r) ==
    /\ r \in InFlight /\ r.op = "deleteSnippetTags" /\ r.stage = "sent"
    /\ \/ /\ dbSnippetTags' = SelectSeq(dbSnippetTags,
                                  LAMBDA pair : pair.id_snippet # r.id)
          /\ requests' = Replaced(r, Answered(r, TRUE, <<>>))
       \/ /\ dbSnippetTags' = dbSnippetTags
          /\ requests' = Replaced(r, Answered(r, FALSE, <<>>))
    /\ lastOp' = NoOp
    /\ UNCHANGED <<dashVars, showForm, formVars, dbTags, inserts, opens>>
    /\ UNCHANGED <<pageVars, editVars, dbSnippets, dbSnippetSeq, submits,
                   deletes, loadVars>>

\* The service runs from('snippets').delete().eq('id_snippet', id), which
\* the foreign key of snippet_tags lets pass only for an unreferenced row, or
\* rejects it.
dbDeleteSnippet(r) ==
    /\ r \in InFlight /\ r.op = "deleteSnippet" /\ r.stage = "sent"
    /\ \/ /\ ~Referenced(r.id)
          /\ dbSnippets' = SelectSeq(dbSnippets, LAMBDA row : row.id_snippet # r.id)
          /\ requests' = Replaced(r, Answered(r, TRUE, <<>>))
       \/ /\ dbSnippets' = dbSnippets
          /\ requests' = Replaced(r, Answered(r, FALSE, <<>>))
    /\ lastOp' = NoOp
    /\ UNCHANGED <<dashVars, showForm, formVars, dbTags, inserts, opens>>
    /\ UNCHANGED <<pageVars, editVars, dbSnippetTags, dbSnippetSeq, submits,
                   deletes, loadVars>>

\* A request of handleDelete(id).
Delete(op, id) == Call("handleDelete", op, id, <<>>, EmptyForm, <<>>, <<>>, <<>>)

\* handleDelete with both deletes sent at once.
handleDeleteAtOnce(id) ==
    /\ ~filterEffect
    /\ ~loading /\ ~showForm
    /\ deletes < MaxDeletes
    /\ deletes' = deletes + 1
    /\ requests' = requests (+) SetToBag({Delete("deleteSnippetTags", id)})
                            (+) SetToBag({Delete("deleteSnippet", id)})
    /\ lastOp' = NoOp
    /\ UNCHANGED <<dashVars, showForm, formVars, dbTags, inserts, opens>>
    /\ UNCHANGED <<pageVars, editVars, dbSnippets, dbSnippetTags, dbSnippetSeq,
                   submits, loadVars>>

\* handleDelete(id), confirmed on a card, up to its first await.
handleDelete(id) ==
    /\ ~filterEffect
    /\ ~loading /\ ~showForm
    /\ deletes < MaxDeletes
    /\ deletes' = deletes + 1
    /\ requests' = requests (+) SetToBag({Delete("deleteSnippetTags", id)})
    /\ lastOp' = NoOp
    /\ UNCHANGED <<dashVars, showForm, formVars, dbTags, inserts, opens>>
    /\ UNCHANGED <<pageVars, editVars, dbSnippets, dbSnippetTags, dbSnippetSeq,
                   submits, loadVars>>

\* handleDelete after its first await: the answer is not looked at, and the
\* delete of the snippet is sent.
handleDeleteTagsResume(r) ==
    /\ r \in InFlight /\ r.by = "handleDelete"
    /\ r.op = "deleteSnippetTags" /\ r.stage = "answered"
    /\ requests' = Without(r) (+) SetToBag({Delete("deleteSnippet", r.id)})
    /\ lastOp' = Op("handleDelete", IF r.ok THEN "tagsDeleted" ELSE "tagsKept", NoToast)
    /\ UNCHANGED <<dashVars, showForm, formVars, dbTags, inserts, opens>>
    /\ UNCHANGED crudVars

\* handleDelete after its second await: the toast and loadSnippets() up to
\* its await, or the catch block.
handleDeleteResume(r) ==
    /\ r \in InFlight /\ r.by = "handleDelete"
    /\ r.op = "deleteSnippet" /\ r.stage = "answered"
    /\ IF r.ok
       THEN /\ loads' = loads + 1
            /\ requests' = Without(r)
                   (+) SetToBag({Load("Dashboard", "selectSnippets", loads + 1)})
            /\ lastOp' = Op("handleDelete", "deleted", "Snippet excluído")
       ELSE /\ loads' = loads
            /\ requests' = Without(r)
            /\ lastOp' = Op("handleDelete", "error", "Erro ao excluir")
    /\ UNCHANGED <<dashVars, showForm, formVars, dbTags, inserts, opens>>
    /\ UNCHANGED <<pageVars, editVars, storeVars, newestLoaded>>

\* -------------------------------------------------------- saving a snippet
\* formData.descricao || null: the empty text is stored as null.
orNull(text) == IF text = <<>> THEN Absent ELSE Present(text)

\* snippets_id_linguagem_fkey: the language of a stored snippet is a row of
\* linguagens.
LanguageExists(id) == \E i \in 1..Len(LanguageRows) : LanguageRows[i].id_linguagem = id

SnippetExists(id) == \E i \in 1..Len(dbSnippets) : dbSnippets[i].id_snippet = id

TagExists(id) == \E i \in 1..Len(dbTags) : dbTags[i].id_tag = id

\* A snippet's tag set holds a tag once: no pair of `rows` is in the table
\* already, or twice in `rows`.
PairsUnique(rows) ==
    /\ \A i \in 1..Len(rows) : \A j \in 1..Len(dbSnippetTags) : rows[i] # dbSnippetTags[j]
    /\ \A i, j \in 1..Len(rows) : rows[i] = rows[j] => i = j

\* The service runs from('snippets').update({...}).eq('id_snippet', id), or
\* rejects it.  An update that matches no row is no error.
dbUpdateSnippet(r) ==
    /\ r \in InFlight /\ r.op = "updateSnippet" /\ r.stage = "sent"
    /\ \/ /\ LanguageExists(r.form.id_linguagem)
          /\ dbSnippets' =
                 [i \in 1..Len(dbSnippets) |->
                     IF dbSnippets[i].id_snippet = r.id
                     THEN [dbSnippets[i] EXCEPT !.titulo = r.form.titulo,
                                                !.descricao = orNull(r.form.descricao),
                                                !.codigo = r.form.codigo,
                                                !.id_linguagem = r.form.id_linguagem]
                     ELSE dbSnippets[i]]
          /\ requests' = Replaced(r, Answered(r, TRUE, <<>>))
       \/ /\ dbSnippets' = dbSnippets
          /\ requests' = Replaced(r, Answered(r, FALSE, <<>>))
    /\ lastOp' = NoOp
    /\ UNCHANGED <<dashVars, showForm, formVars, dbTags, inserts, opens>>
    /\ UNCHANGED <<pageVars, editVars, dbSnippetTags, dbSnippetSeq, submits,
                   deletes, loadVars>>

\* The service runs from('snippets').insert({...}).select().single(), or
\* rejects it.  id_snippet is a serial column.
dbInsertSnippet(r) ==
    /\ r \in InFlight /\ r.op = "insertSnippet" /\ r.stage = "sent"
    /\ \/ LET row == SnippetRow(dbSnippetSeq + 1, parseInt(user.id)[1],
                                r.form.titulo, orNull(r.form.descricao),
                                r.form.codigo, r.form.id_linguagem)
          IN  /\ LanguageExists(r.form.id_linguagem)
              /\ dbSnippetSeq' = dbSnippetSeq + 1
              /\ dbSnippets' = Append(dbSnippets, row)
              /\ requests' = Replaced(r, Answered(r, TRUE, <<row>>))
       \/ /\ UNCHANGED <<dbSnippets, dbSnippetSeq>>
          /\ requests' = Replaced(r, Answered(r, FALSE, <<>>))
    /\ lastOp' = NoOp
    /\ UNCHANGED <<dashVars, showForm, formVars, dbTags, inserts, opens>>
    /\ UNCHANGED <<pageVars, editVars, dbSnippetTags, submits, deletes, loadVars>>

\* The rows handleSubmit builds from the selection.
tagInserts(id, tags) == [i \in 1..Len(tags) |-> SnippetTag(id, tags[i].id_tag)]

\* The service runs from('snippet_tags').insert(tagInserts), all rows or
\* none, or rejects it.
dbInsertSnippetTags(r) ==
    /\ r \in InFlight /\ r.op = "insertSnippetTags" /\ r.stage = "sent"
    /\ \/ LET rows == tagInserts(r.id, r.selectedTags)
          IN  /\ SnippetExists(r.id)
              /\ \A i \in 1..Len(rows) : TagExists(rows[i].id_tag)
              /\ PairsUnique(rows)
              /\ dbSnippetTags' = dbSnippetTags \o rows
              /\ requests' = Replaced(r, Answered(r, TRUE, <<>>))
       \/ /\ dbSnippetTags' = dbSnippetTags
          /\ requests' = Replaced(r, Answered(r, FALSE, <<>>))
    /\ lastOp' = NoOp
    /\ UNCHANGED <<dashVars, showForm, formVars, dbTags, inserts, opens>>
    /\ UNCHANGED <<pageVars, editVars, dbSnippets, dbSnippetSeq, submits,
                   deletes, loadVars>>

\* handleEdit(snippet) from a card: setEditingSnippet(snippet);
\* setShowForm(true); then the form's [snippet] effect and its [open] effect.
handleEdit(snippet) ==
    /\ ~filterEffect
    /\ ~loading /\ ~showForm
    /\ opens < MaxOpens
    /\ editingSnippet' = <<snippet>>
    /\ showForm' = TRUE
    /\ snippetEffect(editingSnippet, <<snippet>>)
    /\ opens' = opens + 1
    /\ requests' = requests (+) SetToBag({Request("selectLanguages", <<>>, <<>>, <<>>),
                                           Request("selectTags", <<>>, <<>>, <<>>)})
    /\ lastOp' = NoOp
    /\ UNCHANGED <<dashVars, formAllTags, formLanguages, newTag, dbTags, inserts>>
    /\ UNCHANGED <<loading, userEffect, formLoading, storeVars, loadVars>>

\* onChange of the title, description and code inputs:
\* setFormData({ ...formData, [field]: e.target.value }).
setFormData(field, text) ==
    /\ ~filterEffect
    /\ ~loading /\ showForm
    /\ formData' = [formData EXCEPT ![field] = text]
    /\ lastOp' = NoOp
    /\ UNCHANGED <<dashVars, showForm, formVars, netVars>>
    /\ UNCHANGED <<pageVars, formLoading, storeVars, loadVars>>

\* The values the form's language select offers.
FormLanguageOptions ==
    {toString(formLanguages[i].id_linguagem) : i \in 1..Len(formLanguages)}

\* onValueChange of the language select:
\* setFormData({ ...formData, id_linguagem: parseInt(value) }).
setFormLanguage(value) ==
    /\ ~filterEffect
    /\ ~loading /\ showForm
    /\ formData' = [formData EXCEPT !.id_linguagem = parseInt(value)[1]]
    /\ lastOp' = NoOp
    /\ UNCHANGED <<dashVars, showForm, formVars, netVars>>
    /\ UNCHANGED <<pageVars, formLoading, storeVars, loadVars>>

\* required with the texts tested as typed, not trimmed.
requiredMissingUntrimmed(form) ==
    form.titulo = <<>> \/ form.codigo = <<>> \/ form.id_linguagem = 0

\* !formData.titulo.trim() || !formData.codigo.trim() || !formData.id_linguagem
requiredMissing(form) ==
    trim(form.titulo) = <<>> \/ trim(form.codigo) = <<>> \/ form.id_linguagem = 0

\* A request of handleSubmit: the closure holds the `snippet` prop, formData
\* and selectedTags of the render the button was clicked in.
Save(op, id, closureSnippet, form, closureSelectedTags) ==
    Call("handleSubmit", op, id, closureSnippet, form, <<>>, <<>>, closureSelectedTags)

\* handleSubmit up to its return from the validation or to its first await.
\* The button is disabled while `loading`.
handleSubmit ==
    /\ ~filterEffect
    /\ ~loading /\ showForm
    /\ ~formLoading
    /\ IF requiredMissing(formData)
       THEN /\ lastOp' = Op("handleSubmit", "invalid", "Campos obrigatórios")
            /\ UNCHANGED <<requests, formLoading, submits>>
       ELSE /\ submits < MaxSubmits
            /\ submits' = submits + 1
            /\ formLoading' = TRUE
            /\ requests' = requests (+) SetToBag({
                   IF editingSnippet # <<>>
                   THEN Save("updateSnippet", editingSnippet[1].id_snippet,
                             editingSnippet, formData, formSelectedTags)
                   ELSE Save("insertSnippet", 0, <<>>, formData, formSelectedTags)})
            /\ lastOp' = Op("handleSubmit", "sent", NoToast)
    /\ UNCHANGED <<dashVars, showForm, formVars, dbTags, inserts, opens>>
    /\ UNCHANGED <<pageVars, formData, dbSnippets, dbSnippetTags, dbSnippetSeq,
                   deletes, loadVars>>

\* The end of handleSubmit's try block with onSave() left out.
savedWithoutOnSave(r, toast) ==
    /\ loads' = loads
    /\ requests' = Without(r)
    /\ closeForm
    /\ formLoading' = FALSE
    /\ lastOp' = Op("handleSubmit", "saved", toast)
    /\ UNCHANGED <<dashVars, formAllTags, formLanguages, newTag, dbTags, inserts, opens>>
    /\ UNCHANGED <<loading, userEffect, storeVars, newestLoaded>>

\* The end of handleSubmit's try block: the toast, onSave() -- loadSnippets()
\* up to its await --, onOpenChange(false), and the finally block.
saved(r, toast) ==
    /\ loads' = loads + 1
    /\ requests' = Without(r)
           (+) SetToBag({Load("Dashboard", "selectSnippets", loads + 1)})
    /\ closeForm
    /\ formLoading' = FALSE
    /\ lastOp' = Op("handleSubmit", "saved", toast)
    /\ UNCHANGED <<dashVars, formAllTags, formLanguages, newTag, dbTags, inserts, opens>>
    /\ UNCHANGED <<loading, userEffect, storeVars, newestLoaded>>

\* handleSubmit's catch block and its finally block.
saveFailed(r) ==
    /\ requests' = Without(r)
    /\ formLoading' = FALSE
    /\ lastOp' = Op("handleSubmit", "error", "Erro ao salvar")
    /\ UNCHANGED <<dashVars, showForm, formVars, dbTags, inserts, opens>>
    /\ UNCHANGED <<pageVars, formData, storeVars, loadVars>>

\* handleSubmit goes on to its next await, sending request q.
saveGoesOn(r, q) ==
    /\ requests' = Without(r) (+) SetToBag({q})
    /\ lastOp' = Op("handleSubmit", r.op, NoToast)
    /\ UNCHANGED <<dashVars, showForm, formVars, dbTags, inserts, opens>>
    /\ UNCHANGED crudVars

\* handleSubmit after the await of the update.
handleSubmitUpdateResume(r) ==
    /\ r \in InFlight /\ r.by = "handleSubmit"
    /\ r.op = "updateSnippet" /\ r.stage = "answered"
    /\ IF r.ok
       THEN saveGoesOn(r, Save("deleteSnippetTags", r.id, r.snippet, r.form, r.selectedTags))
       ELSE saveFailed(r)

\* handleSubmit after the await of the delete of the old associations, whose
\* answer is not looked at.
handleSubmitDeleteTagsResume(r) ==
    /\ r \in InFlight /\ r.by = "handleSubmit"
    /\ r.op = "deleteSnippetTags" /\ r.stage = "answered"
    /\ IF Len(r.selectedTags) > 0
       THEN saveGoesOn(r, Save("insertSnippetTags", r.id, r.snippet, r.form, r.selectedTags))
       ELSE saved(r, "Snippet atualizado!")

\* handleSubmit after the await of the insert of the new snippet.
handleSubmitInsertResume(r) ==
    /\ r \in InFlight /\ r.by = "handleSubmit"
    /\ r.op = "insertSnippet" /\ r.stage = "answered"
    /\ IF r.ok
       THEN IF Len(r.selectedTags) > 0
            THEN saveGoesOn(r, Save("insertSnippetTags", r.data[1].id_snippet,
                                    r.snippet, r.form, r.selectedTags))
            ELSE saved(r, "Snippet criado!")
       ELSE saveFailed(r)

\* handleSubmit after the await of the insert of the associations.
handleSubmitTagsResume(r) ==
    /\ r \in InFlight /\ r.by = "handleSubmit"
    /\ r.op = "insertSnippetTags" /\ r.stage = "answered"
    /\ IF r.ok
       THEN saved(r, IF r.snippet # <<>> THEN "Snippet atualizado!" ELSE "Snippet criado!")
       ELSE saveFailed(r)

\* --------------------------------------------------- the page once loaded
\* The page after an initial load in which all three loads returned data.
ReadyInit ==
    /\ FormIdle
    /\ NetIdle
    /\ PageReady
    /\ dbSnippets = SnippetTable
    /\ dbSnippetTags = SnippetTagTable
    /\ dbSnippetSeq = Len(SnippetTable)
    /\ snippets = SnippetsOfUser
    /\ SnippetsLoaded
    /\ filteredSnippets = snippets
    /\ languages = LanguageRows
    /\ allTags = TagRows
    /\ searchTerm = <<>>
    /\ selectedLanguage = All
    /\ selectedTags = <<>>
    /\ filterEffect = FALSE
    /\ lastOp = NoOp

\* The cards shown, by the id handleDelete is called with.
CardIds == {filteredSnippets[i].id_snippet : i \in 1..Len(filteredSnippets)}

DashboardNext ==
    \/ applyFilters
    \/ \E text \in {<<>>, <<"A", "b">>} : setSearchTerm(text)
    \/ \E value \in LanguageOptions \ {toString(LanguageRows[1].id_linguagem)} :
           setSelectedLanguage(value)
    \/ \E tag \in Range(OfferedTags) : addTagFilter(tag)
    \/ \E tag \in Range(selectedTags) : removeTagFilter(tag.id_tag)
    \/ clearFilters
    \/ \E id \in CardIds : handleDelete(id)
    \/ \E r \in InFlight : dbDeleteSnippetTags(r)
    \/ \E r \in InFlight : dbDeleteSnippet(r)
    \/ \E r \in InFlight : dbSelectSnippets(r)
    \/ \E r \in InFlight : handleDeleteTagsResume(r)
    \/ \E r \in InFlight : handleDeleteResume(r)
    \/ \E r \in InFlight : loadSnippetsResume(r)

DashboardSpec == ReadyInit /\ [][DashboardNext]_vars

\* -------------------------------------------------- the form saving
\* The loaded page and the form: a snippet is typed in or edited, its tags
\* are unselected, and it is submitted.
SaveNext ==
    \/ applyFilters
    \/ openForm
    \/ \E snippet \in Range(filteredSnippets) : handleEdit(snippet)
    \/ handleFormClose
    \/ \E text \in {<<Space>>, <<"b">>} : setFormData("titulo", text)
    \/ setFormData("codigo", <<"b">>)
    \/ \E value \in FormLanguageOptions : setFormLanguage(value)
    \/ \E tag \in Range(formSelectedTags) : removeTag(tag.id_tag)
    \/ handleSubmit
    \/ \E r \in InFlight : dbSelectLanguages(r)
    \/ \E r \in InFlight : dbSelectTags(r)
    \/ \E r \in InFlight : dbSelectSnippets(r)
    \/ \E r \in InFlight : dbUpdateSnippet(r)
    \/ \E r \in InFlight : dbInsertSnippet(r)
    \/ \E r \in InFlight : dbDeleteSnippetTags(r)
    \/ \E r \in InFlight : dbInsertSnippetTags(r)
    \/ \E r \in InFlight : loadLanguagesResume(r)
    \/ \E r \in InFlight : loadTagsResume(r)
    \/ \E r \in InFlight : handleSubmitUpdateResume(r)
    \/ \E r \in InFlight : handleSubmitDeleteTagsResume(r)
    \/ \E r \in InFlight : handleSubmitInsertResume(r)
    \/ \E r \in InFlight : handleSubmitTagsResume(r)
    \/ \E r \in InFlight : loadSnippetsResume(r)

SaveSpec == ReadyInit /\ [][SaveNext]_vars

\* ------------------------------------------------- the tag selections
\* The loaded page and the form: tags are chosen for the filter, a snippet is
\* opened, tags are added to and removed from its selection, and it is saved.
SelectionNext ==
    \/ applyFilters
    \/ \E tag \in Range(OfferedTags) : addTagFilter(tag)
    \/ \E tag \in Range(selectedTags) : removeTagFilter(tag.id_tag)
    \/ clearFilters
    \/ openForm
    \/ \E snippet \in Range(filteredSnippets) : handleEdit(snippet)
    \/ handleFormClose
    \/ setNewTag(<<"A">>)
    \/ addTag
    \/ \E tag \in Range(formSelectedTags) : removeTag(tag.id_tag)
    \/ handleSubmit
    \/ \E r \in InFlight : dbSelectLanguages(r)
    \/ \E r \in InFlight : dbSelectTags(r)
    \/ \E r \in InFlight : dbSelectSnippets(r)
    \/ \E r \in InFlight : dbInsertTag(r)
    \/ \E r \in InFlight : dbUpdateSnippet(r)
    \/ \E r \in InFlight : dbDeleteSnippetTags(r)
    \/ \E r \in InFlight : dbInsertSnippetTags(r)
    \/ \E r \in InFlight : loadLanguagesResume(r)
    \/ \E r \in InFlight : loadTagsResume(r)
    \/ \E r \in InFlight : addTagResume(r)
    \/ \E r \in InFlight : handleSubmitUpdateResume(r)
    \/ \E r \in InFlight : handleSubmitDeleteTagsResume(r)
    \/ \E r \in InFlight : handleSubmitTagsResume(r)
    \/ \E r \in InFlight : loadSnippetsResume(r)

SelectionSpec == ReadyInit /\ [][SelectionNext]_vars

\* ------------------------------------------- the page and the form at work
\* The loaded page with its cards and the form: snippets are edited, created
\* and deleted while earlier requests are still under way.
CrudNext ==
    \/ applyFilters
    \/ openForm
    \/ \E snippet \in Range(filteredSnippets) : handleEdit(snippet)
    \/ handleFormClose
    \/ setFormData("titulo", <<"b">>)
    \/ setFormData("codigo", <<"b">>)
    \/ \E value \in FormLanguageOptions \ {toString(LanguageRows[1].id_linguagem)} :
           setFormLanguage(value)
    \/ \E tag \in Range(formSelectedTags) : removeTag(tag.id_tag)
    \/ handleSubmit
    \/ \E id \in CardIds : handleDelete(id)
    \/ \E r \in InFlight : dbSelectLanguages(r)
    \/ \E r \in InFlight : dbSelectTags(r)
    \/ \E r \in InFlight : dbSelectSnippets(r)
    \/ \E r \in InFlight : dbUpdateSnippet(r)
    \/ \E r \in InFlight : dbInsertSnippet(r)
    \/ \E r \in InFlight : dbDeleteSnippetTags(r)
    \/ \E r \in InFlight : dbInsertSnippetTags(r)
    \/ \E r \in InFlight : dbDeleteSnippet(r)
    \/ \E r \in InFlight : loadLanguagesResume(r)
    \/ \E r \in InFlight : loadTagsResume(r)
    \/ \E r \in InFlight : handleSubmitUpdateResume(r)
    \/ \E r \in InFlight : handleSubmitDeleteTagsResume(r)
    \/ \E r \in InFlight : handleSubmitInsertResume(r)
    \/ \E r \in InFlight : handleSubmitTagsResume(r)
    \/ \E r \in InFlight : handleDeleteTagsResume(r)
    \/ \E r \in InFlight : handleDeleteResume(r)
    \/ \E r \in InFlight : loadSnippetsResume(r)

CrudSpec == ReadyInit /\ [][CrudNext]_vars

\* ------------------------------------------------- claims on the filter
\* The filter has run on the criteria and the list now in the state.
FilterSettled == ~filterEffect

Kept(snippet) == snippet \in Range(filteredSnippets)

\* Two characters that differ at most in case.
SameLetter(c, d) == c = d \/ {c, d} = {"a", "A"} \/ {c, d} = {"b", "B"}

\* q occurs in text, case ignored, starting at some position.
OccursIgnoringCase(text, q) ==
    \E start \in 1..(Len(text) - Len(q) + 1) :
        \A k \in 1..Len(q) : SameLetter(text[start + k - 1], q[k])

TextOnly == searchTerm # <<>> /\ selectedLanguage = All /\ selectedTags = <<>>

\* C1: with only a search term set, a snippet of the list is in the filtered
\* list exactly when the term occurs, case ignored, in its title, in its
\* description if it has one, or in its code; nothing else is in the result.
C1_TextFilter ==
    (~filterEffect /\ TextOnly) =>
        /\ Range(filteredSnippets) \subseteq Range(snippets)
        /\ \A snippet \in Range(snippets) :
               Kept(snippet) <=>
                   \/ OccursIgnoringCase(snippet.titulo, searchTerm)
                   \/ /\ snippet.descricao.present
                      /\ OccursIgnoringCase(snippet.descricao.value, searchTerm)
                   \/ OccursIgnoringCase(snippet.codigo, searchTerm)

\* An upper-case term has kept a snippet without description and dropped another.
C1_Witness ==
    /\ FilterSettled /\ TextOnly
    /\ toLowerCase(searchTerm) # searchTerm
    /\ \E kept, dropped \in Range(snippets) :
           /\ Kept(kept) /\ ~kept.descricao.present
           /\ ~Kept(dropped)

LanguageOnly == searchTerm = <<>> /\ selectedLanguage # All /\ selectedTags = <<>>

\* The language the select's current value stands for.
SelectedLanguageIds ==
    {languages[i].id_linguagem : i \in
        {k \in 1..Len(languages) : toString(languages[k].id_linguagem) = selectedLanguage}}

\* C2: with only a language selected, the filtered list holds the snippets of
\* that language, all of them and no other.
C2_LanguageFilter ==
    (~filterEffect /\ LanguageOnly) =>
        /\ Range(filteredSnippets) \subseteq Range(snippets)
        /\ \A snippet \in Range(snippets) :
               Kept(snippet) <=> snippet.id_linguagem \in SelectedLanguageIds

\* A language with a two-digit id has kept one snippet and dropped another.
C2_Witness ==
    /\ FilterSettled /\ LanguageOnly
    /\ Len(selectedLanguage) > 1
    /\ \E kept, dropped \in Range(snippets) : Kept(kept) /\ ~Kept(dropped)

TagsOnly == searchTerm = <<>> /\ selectedLanguage = All /\ Len(selectedTags) > 0

TagIdsOf(snippet) ==
    {snippet.snippet_tags[j].tags.id_tag : j \in 1..Len(snippet.snippet_tags)}

SelectedTagIds == {selectedTags[i].id_tag : i \in 1..Len(selectedTags)}

\* C3: with only tags selected, a snippet is in the filtered list exactly when
\* every selected tag, by id, is one of its tags.
C3_TagFilter ==
    (~filterEffect /\ TagsOnly) =>
        /\ Range(filteredSnippets) \subseteq Range(snippets)
        /\ \A snippet \in Range(snippets) :
               Kept(snippet) <=> SelectedTagIds \subseteq TagIdsOf(snippet)

\* Two tags are selected; a snippet with both is kept, one with only one of
\* them is dropped.
C3_Witness ==
    /\ FilterSettled /\ TagsOnly
    /\ Len(selectedTags) > 1
    /\ \E kept, dropped \in Range(snippets) :
           /\ Kept(kept)
           /\ ~Kept(dropped)
           /\ TagIdsOf(dropped) \cap SelectedTagIds # {}

\* C4: the filtered list holds exactly the snippets that pass the text filter
\* alone, the language filter alone and the tag filter alone, and it is the
\* same list in whichever order the three steps narrow it.
C4_Conjunctive ==
    ~filterEffect =>
        /\ Range(filteredSnippets) =
               Range(filtered(snippets, searchTerm, All, <<>>))
               \cap Range(filtered(snippets, <<>>, selectedLanguage, <<>>))
               \cap Range(filtered(snippets, <<>>, All, selectedTags))
        /\ filteredSnippets =
               languageFilter(tagFilter(textFilter(snippets, searchTerm), selectedTags),
                              selectedLanguage)
        /\ filteredSnippets =
               tagFilter(textFilter(languageFilter(snippets, selectedLanguage), searchTerm),
                         selectedTags)
        /\ filteredSnippets =
               languageFilter(textFilter(tagFilter(snippets, selectedTags), searchTerm),
                              selectedLanguage)
        /\ filteredSnippets =
               textFilter(languageFilter(tagFilter(snippets, selectedTags), selectedLanguage),
                          searchTerm)
        /\ filteredSnippets =
               textFilter(tagFilter(languageFilter(snippets, selectedLanguage), selectedTags),
                          searchTerm)

\* All three criteria are set, each alone keeps a snippet the combination drops.
C4_Witness ==
    /\ FilterSettled
    /\ searchTerm # <<>> /\ selectedLanguage # All /\ Len(selectedTags) > 0
    /\ filteredSnippets # <<>>
    /\ \E dropped \in Range(snippets) :
           /\ ~Kept(dropped)
           /\ \/ dropped \in Range(filtered(snippets, searchTerm, All, <<>>))
              \/ dropped \in Range(filtered(snippets, <<>>, selectedLanguage, <<>>))
              \/ dropped \in Range(filtered(snippets, <<>>, All, selectedTags))

NoCriteria == searchTerm = <<>> /\ selectedLanguage = All /\ selectedTags = <<>>

\* C5: with no criterion set the filtered list is the snippet list itself:
\* the same elements in the same order.
C5_Identity ==
    (~filterEffect /\ NoCriteria) => filteredSnippets = snippets

\* The filter has run without criteria on a list of two or more snippets.
C5_Witness ==
    /\ FilterSettled /\ NoCriteria
    /\ Len(snippets) > 1
    /\ Len(filteredSnippets) = Len(snippets)

\* C6: whatever the criteria, the filtered list is the snippet list with some
\* elements left out: its elements are taken from increasing positions of the
\* snippet list.
C6_Subsequence ==
    ~filterEffect =>
        \E at \in [1..Len(filteredSnippets) -> 1..Len(snippets)] :
            /\ \A i \in 1..Len(filteredSnippets) : filteredSnippets[i] = snippets[at[i]]
            /\ \A i, j \in 1..Len(filteredSnippets) : i < j => at[i] < at[j]

\* Criteria are set and two snippets are kept.
C6_Witness ==
    /\ FilterSettled /\ ~NoCriteria
    /\ Len(filteredSnippets) > 1

\* ------------------------------------------- claims on the tag input
\* Two texts that differ at most in case.
EqualIgnoringCase(s, t) ==
    Len(s) = Len(t) /\ \A k \in 1..Len(s) : SameLetter(s[k], t[k])

Occurrences(tags, id) == Cardinality({i \in 1..Len(tags) : tags[i].id_tag = id})

\* The tags of the form's collection that bear `name`, case ignored.
NamedLike(name) ==
    {formAllTags[i] : i \in {k \in 1..Len(formAllTags) :
                                EqualIgnoringCase(formAllTags[k].nome, name)}}

\* C7: addTag with a name that a tag of the form's collection bears, case
\* ignored, sends no request and adds no row or tag; after it a tag of that
\* name is in the selection, once -- so also after addTag is called again.
C7_ExistingTagReused ==
    [][(addTag /\ NamedLike(newTag) # {}) =>
          /\ requests' = requests
          /\ dbTags' = dbTags
          /\ formAllTags' = formAllTags
          /\ \E tag \in NamedLike(newTag) :
                 Occurrences(formSelectedTags', tag.id_tag) = 1]_vars

\* addTag found the tag named "a" (typed "A") selected already and left it
\* in the selection once.
C7_Witness ==
    /\ lastOp = Op("addTag", "kept", NoToast)
    /\ Occurrences(formSelectedTags, TagRows[1].id_tag) = 1
    /\ dbTags = TagRows

\* C8: no two rows of the tags table bear names that are equal when case is
\* ignored.
C8_NoDuplicateNames ==
    \A i, j \in 1..Len(dbTags) :
        i # j => ~EqualIgnoringCase(dbTags[i].nome, dbTags[j].nome)

\* C9: addTag looks the trimmed name up: a name that trims to nothing changes
\* nothing and sends nothing; a name that, trimmed, is borne by a tag of the
\* collection, case ignored, sends no request and selects that tag.
C9_TrimmedLookup ==
    [][addTag =>
          /\ trim(newTag) = <<>> =>
                 UNCHANGED <<dashVars, showForm, formVars, netVars>>
          /\ (trim(newTag) # <<>> /\ NamedLike(trim(newTag)) # {}) =>
                 /\ requests' = requests
                 /\ \E tag \in NamedLike(trim(newTag)) :
                        hasTag(formSelectedTags', tag.id_tag)]_vars

\* C10: an insert the service accepts adds one row, named as typed and
\* trimmed; addTag's continuation then appends the new tag to the collection
\* and to the selection as they are, and empties the input.
C10_NewTagAppended ==
    [][\A r \in InFlight :
          /\ (dbInsertTag(r) /\ Len(dbTags') # Len(dbTags)) =>
                 /\ Len(dbTags') = Len(dbTags) + 1
                 /\ SubSeq(dbTags', 1, Len(dbTags)) = dbTags
                 /\ dbTags'[Len(dbTags')].nome = r.nome
                 /\ trim(r.nome) = r.nome
          /\ (addTagResume(r) /\ r.ok) =>
                 /\ formAllTags' = Append(formAllTags, r.data[1])
                 /\ formSelectedTags' = Append(formSelectedTags, r.data[1])
                 /\ newTag' = <<>>]_vars

\* ---------------------------------------------- claims on the initial load
\* A load of loadInitialData has not run its continuation yet.
InitialPending == \E r \in InFlight : r.by = "loadInitialData"

\* C16: the three initial loads wait for nothing but the service, in whatever
\* order it answers and whether it answers with data or with an error; the
\* loading flag is true exactly as long as loadInitialData has not started or
\* one of its three loads has not completed, and it becomes false in the end.
C16_LoadingJoined ==
    /\ [](loading <=> (userEffect \/ InitialPending))
    /\ [][\A r \in InFlight :
              (r.by = "loadInitialData" /\ r.stage = "sent") =>
                  \/ ENABLED dbSelectSnippets(r)
                  \/ ENABLED dbSelectLanguages(r)
                  \/ ENABLED dbSelectTags(r)]_vars
    /\ <>(~loading)

\* The flag fell when the tags load, the last to complete, failed; the
\* snippets had loaded and the languages had failed before.
C16_Witness ==
    /\ ~loading
    /\ lastOp = Op("loadTags", "error", "Erro ao carregar tags")
    /\ snippets # <<>>
    /\ languages = <<>>

\* ------------------------------------------- claims on the loaded page
\* The step sends a request q, and the step takes a request q out.
Sent(q) == CopiesIn(q, requests') > CopiesIn(q, requests)

Taken(q) == CopiesIn(q, requests') < CopiesIn(q, requests)

\* C13: handleDelete sends the delete of the snippet record only in the step
\* in which its delete of the snippet's tag associations has completed, and
\* whenever the service deletes a snippet record no row of snippet_tags
\* references it, before or after.
C13_DeleteOrder ==
    [][/\ \A id \in 1..dbSnippetSeq :
              Sent(Delete("deleteSnippet", id)) =>
                  \E q \in InFlight :
                      /\ q.by = "handleDelete" /\ q.op = "deleteSnippetTags"
                      /\ q.id = id /\ q.stage = "answered"
                      /\ Taken(q)
       /\ \A r \in InFlight :
              (dbDeleteSnippet(r) /\ dbSnippets' # dbSnippets) =>
                  /\ ~Referenced(r.id)
                  /\ \A i \in 1..Len(dbSnippetTags') :
                         dbSnippetTags'[i].id_snippet # r.id]_vars

\* handleDelete has ended with its success toast, and the tagged snippet 2
\* and its associations are gone.
C13_Witness ==
    /\ lastOp = Op("handleDelete", "deleted", "Snippet excluído")
    /\ SnippetTagTable[1].id_snippet = 2
    /\ \A i \in 1..Len(dbSnippets) : dbSnippets[i].id_snippet # 2
    /\ ~Referenced(2)

\* C17: whenever no run of applyFilters is pending, filteredSnippets is the
\* filter of the current snippets, searchTerm, selectedLanguage and
\* selectedTags -- every change of one of them has scheduled a run -- and a run
\* of applyFilters changes none of the four.
C17_Recomputed ==
    /\ [](~filterEffect =>
              filteredSnippets =
                  filtered(snippets, searchTerm, selectedLanguage, selectedTags))
    /\ [][applyFilters =>
              UNCHANGED <<snippets, searchTerm, selectedLanguage, selectedTags>>]_vars

\* A reload after a delete has replaced the snippet list while a search term
\* was set, and the filter has run on the new list.
C17_Witness ==
    /\ ~filterEffect
    /\ newestLoaded.id > 1
    /\ Len(snippets) < Len(SnippetTable) - 1
    /\ searchTerm # <<>>
    /\ Len(filteredSnippets) = 1

NoSnippetLoadPending == ~\E r \in InFlight : r.op = "selectSnippets"

\* C20: once every call of loadSnippets has completed, the snippet list is
\* the result of the latest call that returned one, in whatever order the
\* answers arrived.
C20_LatestLoadShown ==
    (NoSnippetLoadPending /\ newestLoaded.id > 0) => snippets = newestLoaded.data

\* ------------------------------------------------ claims on the form
\* A text of spaces only, the empty text included.
IsBlank(text) == \A k \in 1..Len(text) : text[k] = Space

\* The form as handleSubmit may send it: a title, a code and a language.
Complete(form) ==
    ~IsBlank(form.titulo) /\ ~IsBlank(form.codigo) /\ form.id_linguagem # 0

\* C18: handleSubmit sends one request, the insert or the update of the
\* snippet, when the title and the code are not blank and a language is
\* selected; otherwise it sends nothing, shows the toast "Campos
\* obrigatórios" and changes no state.  Every row of snippets bears the id
\* of a row of linguagens.
C18_RequiredFields ==
    /\ [][handleSubmit =>
              IF Complete(formData)
              THEN \E q \in InFlight' :
                       /\ q.op \in {"insertSnippet", "updateSnippet"}
                       /\ q.form = formData
                       /\ requests' = requests (+) SetToBag({q})
              ELSE /\ requests' = requests
                   /\ lastOp'.toast = "Campos obrigatórios"
                   /\ UNCHANGED <<dashVars, showForm, formVars, netVars, crudVars>>]_vars
    /\ [](\A i \in 1..Len(dbSnippets) : LanguageExists(dbSnippets[i].id_linguagem))

\* handleSubmit has refused a form whose title is one space, with the code
\* and the language filled in.
C18_Witness ==
    /\ lastOp = Op("handleSubmit", "invalid", "Campos obrigatórios")
    /\ formData.titulo = <<Space>>
    /\ formData.codigo # <<>>
    /\ formData.id_linguagem # 0
    /\ requests = EmptyBag

\* --------------------------------------------- claims on the reloads
\* The step sends a select of loadSnippets.
ReloadSent ==
    \E q \in InFlight' :
        q.op = "selectSnippets" /\ q.stage = "sent" /\ Sent(q)

Succeeded ==
    \/ lastOp'.op = "handleSubmit" /\ lastOp'.toast \in {"Snippet criado!", "Snippet atualizado!"}
    \/ lastOp'.op = "handleDelete" /\ lastOp'.toast = "Snippet excluído"

Failed ==
    \/ lastOp'.op = "handleSubmit" /\ lastOp'.toast = "Erro ao salvar"
    \/ lastOp'.op = "handleDelete" /\ lastOp'.toast = "Erro ao excluir"

\* C15: the step in which handleSubmit or handleDelete shows its success
\* toast sends a select of loadSnippets, the step in which it shows its error
\* toast sends none; the select is answered with the user's snippets as they
\* are stored, and the continuation of loadSnippets puts that answer in the
\* snippet list and schedules the filter, which then holds the filter of it.
C15_ReloadAfterMutation ==
    /\ [][/\ Succeeded => ReloadSent
          /\ Failed => ~ReloadSent
          /\ \A r \in InFlight :
                 /\ dbSelectSnippets(r) =>
                        \A q \in InFlight' \ InFlight : q.ok => q.data = SnippetsOfUser
                 /\ (loadSnippetsResume(r) /\ r.ok) =>
                        /\ snippets' = r.data
                        /\ filterEffect']_vars
    /\ [](~filterEffect =>
              filteredSnippets =
                  filtered(snippets, searchTerm, selectedLanguage, selectedTags))

\* The reload after a create has completed: the list holds the new snippet
\* first and is the user's stored snippets.
C15_Witness ==
    /\ lastOp = Op("loadSnippets", "loaded", NoToast)
    /\ Len(snippets) = Len(SnippetsOfUser)
    /\ snippets = SnippetsOfUser
    /\ snippets[1].id_snippet = Len(SnippetTable) + 1
    /\ ~NoSnippetLoadPending \/ newestLoaded.data = snippets

\* ------------------------------------------ claims on what is stored
\* What the tables hold of snippet `id`, after the step: its row, if any,
\* and the ids of the tags associated with it.
StoredRow(id) ==
    {dbSnippets'[i] : i \in {k \in 1..Len(dbSnippets') : dbSnippets'[k].id_snippet = id}}

StoredTagIds(id) ==
    {dbSnippetTags'[i].id_tag :
        i \in {k \in 1..Len(dbSnippetTags') : dbSnippetTags'[k].id_snippet = id}}

\* The snippet is stored as `snippet`, loaded before the operation, shows it.
StoredAsBefore(snippet) ==
    /\ StoredRow(snippet.id_snippet) = {RowOf(snippet)}
    /\ StoredTagIds(snippet.id_snippet) = TagIdsOf(snippet)

\* The snippet is stored as the form and the selection were submitted.
StoredAsSubmitted(id, form, tags) ==
    /\ StoredRow(id) = {SnippetRow(id, parseInt(user.id)[1], form.titulo,
                                   orNull(form.descricao), form.codigo,
                                   form.id_linguagem)}
    /\ StoredTagIds(id) = TagIds(tags)

NotStored(id) == StoredRow(id) = {} /\ StoredTagIds(id) = {}

\* The step is the last one of the handleSubmit or handleDelete call that r
\* is the last request of.
Finishes(r, handler, outcomes) ==
    /\ r.by = handler /\ Taken(r)
    /\ lastOp'.op = handler /\ lastOp'.outcome \in outcomes

\* C12: when handleSubmit ends, with its success toast or with its error
\* toast, the edited snippet is stored with its row and its associations
\* either as they were loaded or as they were submitted, and a new snippet is
\* stored with the submitted row and associations or not at all; when
\* handleDelete ends, the snippet is gone with its associations or is stored
\* with the associations its card shows.
C12_SavedAsUnit ==
    [][\A r \in InFlight :
          /\ (Finishes(r, "handleSubmit", {"saved", "error"}) /\ r.snippet # <<>>) =>
                 \/ StoredAsBefore(r.snippet[1])
                 \/ StoredAsSubmitted(r.id, r.form, r.selectedTags)
          /\ (Finishes(r, "handleSubmit", {"saved", "error"}) /\ r.snippet = <<>>) =>
                 \A id \in {r.id} \cup {r.data[i].id_snippet : i \in 1..Len(r.data)} :
                     id # 0 => \/ NotStored(id)
                               \/ StoredAsSubmitted(id, r.form, r.selectedTags)
          /\ Finishes(r, "handleDelete", {"deleted", "error"}) =>
                 \/ NotStored(r.id)
                 \/ \E card \in Range(snippets) :
                        card.id_snippet = r.id /\ StoredAsBefore(card)]_vars

\* ---------------------------------------------- claims on the failures
ErrorToasts ==
    {"Erro ao carregar snippets", "Erro ao carregar linguagens", "Erro ao carregar tags",
     "Erro ao criar tag", "Erro ao salvar", "Erro ao excluir"}

\* C14: the step in which a handler takes an answer that reports a failure
\* shows an error toast, sends no request -- neither the failed one again nor
\* a further one -- and changes none of the lists, the selections, the form
\* data and the form's being open.
C14_FailureReported ==
    [][\A r \in InFlight :
          (r.stage = "answered" /\ ~r.ok /\ Taken(r)) =>
              /\ lastOp'.toast \in ErrorToasts
              /\ requests' = Without(r)
              /\ UNCHANGED <<snippets, languages, allTags, selectedTags,
                             formLanguages, formAllTags, formSelectedTags,
                             formData, showForm>>]_vars

\* ------------------------------------------ claims on the selections
\* No two entries of `tags` bear the same id.
UniqueIds(tags) == \A i, j \in 1..Len(tags) : tags[i].id_tag = tags[j].id_tag => i = j

StoredPairs(id, tag) ==
    {i \in 1..Len(dbSnippetTags') :
        dbSnippetTags'[i].id_snippet = id /\ dbSnippetTags'[i].id_tag = tag}

\* C21: in the step in which handleSubmit shows "Snippet atualizado!", the
\* tags associated with the edited snippet are the tags of the submitted
\* selection, each associated once, and no other tag is associated with it --
\* whatever the service answered to the delete of the old associations.
C21_AssociationsAsSelected ==
    [][\A r \in InFlight :
          (/\ Finishes(r, "handleSubmit", {"saved"})
           /\ lastOp'.toast = "Snippet atualizado!") =>
              /\ StoredTagIds(r.id) = TagIds(r.selectedTags)
              /\ \A tag \in TagIds(r.selectedTags) :
                     Cardinality(StoredPairs(r.id, tag)) = 1]_vars

====
